---- MODULE Spec2Model ----
(***************************************************************************)
(* Model of the tick-activity monitor (mite-tmn): the record store         *)
(* (database.py), the duplicate checker and validators (data_verifier.py,  *)
(* parser.py), the update pipeline with its triggers (parser.py, app.py),  *)
(* the request retry loop (parser.py, mite.py), the risk level functions,  *)
(* the weekly aggregation (database.py) and the forecaster                 *)
(* (ml_predictor.py).                                                      *)
(*                                                                         *)
(* Conventions.  A data_item dict is a record whose date is a date, whose   *)
(* cases is an int and whose source, title, content and url are strings;   *)
(* its key risk_level may be missing (NoKey).  A calendar date is a record *)
(* [y, m, d], compared through its day number Ord.  A title or a url is a  *)
(* sequence of characters / tokens, so that lower(), strip() and           *)
(* startswith() are computed and not assumed.  The wall-clock columns      *)
(* created_at / updated_at of a row take no part in any decision of the    *)
(* code and are not carried.                                               *)
(***************************************************************************)
EXTENDS Integers, Sequences, FiniteSets, TLC

VARIABLES
    rows,          \* table tick_data: sequence of rows, id = position
    seen_hashes,   \* DataVerifier.seen_hashes
    fed,           \* candidates handed to the duplicate checker so far
    rows0,         \* the table when the run in progress started
    enabled,       \* config: optional sources with enabled = true
    pc,            \* per thread: position inside update_all_data
    src_idx,       \* per thread: number of sources already gone through
    outcome,       \* per thread and source: what its parser did in this run
    all_data,      \* per thread: local list all_data
    item_idx,      \* per thread: number of items of all_data already handled
    counts,        \* per thread: counters saved / dup / err of the run
    run_no,        \* per thread: runs finished by this thread
    prev,          \* all_data and the table at the end of the last finished run
    checked,       \* last record handed to the validators, with both verdicts
    risk_call,     \* last cases value handed to the calculate_risk_level functions
    req,           \* the call of make_request_with_retry in progress
    weekly,        \* last call of the weekly aggregation, with its buckets
    forecast,      \* last call of the forecaster, with its result
    feed,          \* last call of generate_news_feed, with its result
    parsed,        \* last entry handed to an extractor, with what it returned
    worker         \* the process: its config file, startup and update thread

vars == <<rows, seen_hashes, fed, rows0, enabled, pc, src_idx, outcome, all_data,
          item_idx, counts, run_no, prev, checked, risk_call, req, weekly, forecast,
          feed, parsed, worker>>

\* the variables of the request, risk, aggregation and forecast calls
callVars == <<risk_call, req, weekly, forecast>>

\* the variables of the news feed, the extractors and the process
procVars == <<feed, parsed, worker>>

-----------------------------------------------------------------------------
(* Values *)

NoKey == "<no key>"

Date(y, m, d) == [y |-> y, m |-> m, d |-> d]

\* datetime.date ordering and subtraction: the proleptic Gregorian day number
Ord(dt) ==
    LET yy  == IF dt.m <= 2 THEN dt.y - 1 ELSE dt.y
        era == yy \div 400
        yoe == yy - era * 400
        mp  == IF dt.m > 2 THEN dt.m - 3 ELSE dt.m + 9
        doy == (153 * mp + 2) \div 5 + dt.d - 1
        doe == yoe * 365 + yoe \div 4 - yoe \div 100 + doy
    IN  era * 146097 + doe

Abs(n) == IF n < 0 THEN 0 - n ELSE n

\* date.today() of the run
Today == Date(2026, 11, 4)

\* date(2020, 1, 1), the oldest date verify_data_quality accepts
MinDate == Date(2020, 1, 1)

\* str.lower() on the characters the titles are made of
LowerChar(c) == CASE c = "A" -> "a" [] c = "B" -> "b" [] OTHER -> c

Lower(s) == [i \in DOMAIN s |-> LowerChar(s[i])]

RECURSIVE LStrip(_)
LStrip(s) == IF s # <<>> /\ Head(s) = " " THEN LStrip(Tail(s)) ELSE s

RECURSIVE RStrip(_)
RStrip(s) ==
    IF s # <<>> /\ s[Len(s)] = " " THEN RStrip(SubSeq(s, 1, Len(s) - 1)) ELSE s

\* str.strip()
Strip(s) == LStrip(RStrip(s))

\* s[:n]
Prefix(s, n) == SubSeq(s, 1, IF Len(s) < n THEN Len(s) ELSE n)

\* url.startswith(('http://', 'https://')); a url is <<scheme, rest>> or <<>>
StartsWithHttp(url) == url # <<>> /\ Head(url) \in {"http://", "https://"}

-----------------------------------------------------------------------------
(* DatabaseManager (database.py) *)

ThresholdLow == 50
ThresholdModerate == 100
ThresholdHigh == 150

RiskNone == "Net dannyh"
RiskLow == "Nizkij"
RiskModerate == "Umerennyj"
RiskHigh == "Vysokij"
RiskVeryHigh == "Ochen vysokij"

\* DatabaseManager.calculate_risk_level with the default thresholds
calculate_risk_level(cases) ==
    IF cases = 0 THEN RiskNone
    ELSE IF cases < ThresholdLow THEN RiskLow
    ELSE IF cases < ThresholdModerate THEN RiskModerate
    ELSE IF cases < ThresholdHigh THEN RiskHigh
    ELSE RiskVeryHigh

\* item.get('risk_level') or self.calculate_risk_level(item.get('cases', 0))
ItemRisk(item) ==
    IF item.risk_level # NoKey /\ item.risk_level # ""
    THEN item.risk_level
    ELSE calculate_risk_level(item.cases)

\* TickData(...) of save_tick_data's else branch
NewRow(item) ==
    [date |-> item.date,
     cases |-> item.cases,
     risk_level |-> ItemRisk(item),
     source |-> item.source,
     title |-> item.title,
     content |-> item.content,
     url |-> item.url]

\* the assignments to `existing` of save_tick_data's if branch
UpdatedRow(row, item) ==
    [row EXCEPT !.cases = item.cases,
                !.risk_level = ItemRisk(item),
                !.content = item.content,
                !.url = item.url]

\* the filter of save_tick_data's query: ids of the committed rows it matches
SaveMatches(tbl, item) ==
    {i \in DOMAIN tbl : /\ tbl[i].date = item.date
                        /\ tbl[i].source = item.source
                        /\ tbl[i].title = item.title}

\* The loop of save_tick_data over data_list[k..].  The session does not
\* autoflush, so every query sees the rows committed before the call (tbl);
\* cur holds the loaded rows with the changes made so far, pend the added
\* objects.  pick[k] is the row .first() returned for item k (0: none).
RECURSIVE SaveLoop(_, _, _, _, _, _)
SaveLoop(tbl, cur, pend, data_list, pick, k) ==
    IF k > Len(data_list) THEN cur \o pend
    ELSE IF pick[k] # 0
         THEN SaveLoop(tbl, [cur EXCEPT ![pick[k]] = UpdatedRow(cur[pick[k]], data_list[k])],
                       pend, data_list, pick, k + 1)
         ELSE SaveLoop(tbl, cur, Append(pend, NewRow(data_list[k])),
                       data_list, pick, k + 1)

\* what .first() may return for each item: one of the matching rows, none
\* when nothing matches (the query has no ORDER BY)
FirstChoices(tbl, data_list) ==
    {pick \in [DOMAIN data_list -> 0 .. Len(tbl)] :
        \A k \in DOMAIN data_list :
            IF SaveMatches(tbl, data_list[k]) = {}
            THEN pick[k] = 0
            ELSE pick[k] \in SaveMatches(tbl, data_list[k])}

\* the table after save_tick_data(data_list) committed
save_tick_data(tbl, data_list, pick) == SaveLoop(tbl, tbl, <<>>, data_list, pick, 1)

\* the methods class DatabaseManager defines
DbMethods ==
    {"create_tables", "get_session", "calculate_risk_level", "save_tick_data",
     "load_tick_data", "get_weekly_data", "get_filtered_data",
     "get_all_data_grouped_by_week"}

\* self.db.<method>: attribute lookup on the DatabaseManager instance raises
\* AttributeError for a name the class does not define
Raises(method) == method \notin DbMethods

\* get_filtered_data(start_date, end_date): ids of the rows in the range
get_filtered_data(tbl, start_ord, end_ord) ==
    {i \in DOMAIN tbl : Ord(tbl[i].date) >= start_ord /\ Ord(tbl[i].date) <= end_ord}

\* Store operation get_by_url (spec 4.6): ids of the rows holding this url.
\* DatabaseManager has no such method; used only where Raises allows it.
get_tick_data_by_url(tbl, url) == {i \in DOMAIN tbl : tbl[i].url = url}

-----------------------------------------------------------------------------
(* DataVerifier (data_verifier.py) *)

MaxHashTitle == 200
DupWindowDays == 7
DupDateSlack == 1

\* calculate_data_hash: the MD5 digest is taken as injective on key_fields
calculate_data_hash(item) ==
    <<item.date, Prefix(Strip(Lower(item.title)), MaxHashTitle), item.source, item.url>>

\* rows of the 7-day window that satisfy the condition of the for loop
DupCandidates(tbl, item) ==
    {i \in get_filtered_data(tbl, Ord(item.date) - DupWindowDays, Ord(item.date)) :
        /\ tbl[i].source = item.source
        /\ Lower(Strip(tbl[i].title)) = Lower(Strip(item.title))
        /\ Abs(Ord(tbl[i].date) - Ord(item.date)) <= DupDateSlack}

\* get_filtered_data orders by date desc: the loop returns a candidate of the
\* latest date (rows of one date come in no specified order)
DupFirst(tbl, item) ==
    {i \in DupCandidates(tbl, item) :
        \A j \in DupCandidates(tbl, item) : Ord(tbl[j].date) <= Ord(tbl[i].date)}

\* is_duplicate with the fingerprint added before the lookups are made
is_duplicate_add_first(tbl, seen, item) ==
    LET h == calculate_data_hash(item)
    IN  IF h \in seen THEN {[dup |-> TRUE, existing |-> 0, seen |-> seen]}
        ELSE {[dup |-> FALSE, existing |-> 0, seen |-> seen \cup {h}]}

\* is_duplicate: the possible results [dup, existing (row id, 0 for None), seen]
is_duplicate(tbl, seen, item) ==
    LET h == calculate_data_hash(item)
        byTitle == IF item.source # "" /\ Strip(item.title) # <<>>
                   THEN DupFirst(tbl, item) ELSE {}
        rest == IF byTitle # {}
                THEN {[dup |-> TRUE, existing |-> i, seen |-> seen \cup {h}] : i \in byTitle}
                ELSE {[dup |-> FALSE, existing |-> 0, seen |-> seen \cup {h}]}
    IN  IF h \in seen THEN {[dup |-> TRUE, existing |-> 0, seen |-> seen]}
        ELSE IF item.url # <<>>
             THEN IF Raises("get_tick_data_by_url")
                  THEN {[dup |-> FALSE, existing |-> 0, seen |-> seen]}
                  ELSE IF get_tick_data_by_url(tbl, item.url) # {}
                       THEN {[dup |-> TRUE, existing |-> i, seen |-> seen \cup {h}] :
                                i \in get_tick_data_by_url(tbl, item.url)}
                       ELSE rest
             ELSE rest

\* _is_tick_season: 20 April .. 10 October
is_tick_season(dt) ==
    IF dt.m \in {5, 6, 7, 8, 9} THEN TRUE
    ELSE IF dt.m = 4 THEN dt.d >= 20
    ELSE IF dt.m = 10 THEN dt.d <= 10
    ELSE FALSE

MaxCases == 10000
MaxSourceLen == 200

\* len(source) of the source tags in use; LongSource stands for a 201-character tag
LongSource == "long source tag"
StrLen(s) == CASE s = "" -> 0 [] s = LongSource -> MaxSourceLen + 1 [] OTHER -> 3

\* verify_data_quality: the set of issues it collects for a typed data_item
QualityIssues(item) ==
    (IF item.cases < 0 THEN {"cases negative"}
     ELSE IF item.cases > MaxCases THEN {"cases implausible"} ELSE {})
    \cup (IF Ord(item.date) > Ord(Today) THEN {"date in future"}
          ELSE IF Ord(item.date) < Ord(MinDate) THEN {"date too old"} ELSE {})
    \cup (IF item.cases > 0 /\ ~is_tick_season(item.date)
          THEN {"out of season"} ELSE {})
    \cup (IF item.source = "" \/ StrLen(item.source) > MaxSourceLen
          THEN {"source format"} ELSE {})
    \cup (IF item.url # <<>> /\ ~StartsWithHttp(item.url) THEN {"url format"} ELSE {})

verify_data_quality(item) == QualityIssues(item) = {}

-----------------------------------------------------------------------------
(* TickParser (parser.py) *)

MaxRiskLen == 50

\* len(risk_level) of the five risk labels
RiskLen(r) ==
    CASE r = RiskNone -> 10 [] r = RiskLow -> 6 [] r = RiskModerate -> 9
      [] r = RiskHigh -> 7 [] OTHER -> 13

\* TickParser._validate_data_item
validate_data_item(item) ==
    /\ item.risk_level # NoKey
    /\ item.cases >= 0
    /\ RiskLen(item.risk_level) <= MaxRiskLen
    /\ StrLen(item.source) <= MaxSourceLen
    /\ Ord(item.date) <= Ord(Today)

\* Store operation update_mutable (spec 4.6): cases, content and the risk
\* level derived from cases.  DatabaseManager has no update_tick_data.
update_tick_data(tbl, id, item) ==
    [tbl EXCEPT ![id].cases = item.cases,
                ![id].risk_level = calculate_risk_level(item.cases),
                ![id].content = item.content]

\* self.db.save_tick_data(data_item) with a dict: the for loop of
\* save_tick_data walks the keys of the dict, item['date'] on a key (a str)
\* raises TypeError, the call rolls back and re-raises
save_tick_data_dict(tbl, data_item) == [raised |-> TRUE, rows |-> tbl]

\* ProcessItem as it would be if the pass saved every record without looking
\* for an existing row and the save went through
ProcessItemSaveAlways(tbl, data_item) ==
    {[rows |-> Append(tbl, NewRow(data_item)), kind |-> "saved"]}

\* One pass of the for loop of update_all_data over data_item: the possible
\* results [rows, kind], kind naming the counter the pass increments.
ProcessItem(tbl, data_item) ==
    IF ~validate_data_item(data_item) THEN {[rows |-> tbl, kind |-> "err"]}
    ELSE IF Raises("get_tick_data_by_url") THEN {[rows |-> tbl, kind |-> "err"]}
    ELSE IF get_tick_data_by_url(tbl, data_item.url) # {}
         THEN IF Raises("update_tick_data")
              THEN {[rows |-> tbl, kind |-> "duperr"]}
              ELSE {[rows |-> update_tick_data(tbl, i, data_item), kind |-> "dup"] :
                        i \in get_tick_data_by_url(tbl, data_item.url)}
         ELSE IF save_tick_data_dict(tbl, data_item).raised
              THEN {[rows |-> tbl, kind |-> "err"]}
              ELSE {[rows |-> save_tick_data_dict(tbl, data_item).rows, kind |-> "saved"]}

-----------------------------------------------------------------------------
(* Inputs *)

MaxRows == 3
MaxBatch == 2
MaxFed == 3
MaxRuns == 2

TA == <<"a">>
TAup == <<"A">>
TAsp == <<"a", " ">>
TB == <<"b">>

U1 == <<"http://", "1">>
U2 == <<"https://", "2">>
UFtp == <<"ftp://", "3">>

Item(dt, cases, risk, source, title, content, url) ==
    [date |-> dt, cases |-> cases, risk_level |-> risk, source |-> source,
     title |-> title, content |-> content, url |-> url]

\* what the parsers of parser.py append to their results: no risk_level key
Extracted(dt, cases, source, title, url) ==
    Item(dt, cases, NoKey, source, title, "c", url)

\* records handed to save_tick_data
StoreItems ==
    {Item(dt, c, NoKey, "web", t, "c", u) :
        dt \in {Date(2024, 6, 15)}, c \in {5, 80},
        t \in {TA, TAup}, u \in {<<>>, U1}}

StoreBatches ==
    UNION {[1 .. n -> StoreItems] : n \in 1 .. MaxBatch}

\* candidates handed to the duplicate checker
DedupItems ==
    {Item(dt, c, NoKey, "web", t, "c", u) :
        dt \in {Date(2024, 6, 14), Date(2024, 6, 15), Date(2024, 6, 16)},
        c \in {5}, t \in {TA, TAup, TAsp}, u \in {<<>>, U1}}

\* records handed to the validators
ValidatorItems ==
    {Item(dt, c, r, src, TA, "c", u) :
        dt \in {Date(2019, 12, 31), Date(2020, 1, 1), Date(2019, 6, 15),
                Date(2024, 1, 15), Date(2024, 4, 19), Date(2024, 4, 20),
                Date(2024, 6, 15), Date(2024, 10, 10), Date(2024, 10, 11),
                Today, Date(2026, 11, 5)},
        c \in {0 - 1, 0, 73, MaxCases, MaxCases + 1},
        r \in {NoKey, RiskModerate},
        src \in {"", "web", LongSource},
        u \in {<<>>, U1, UFtp}}

Threads == {"auto", "manual"}

\* the sources of update_all_data, in the order it goes through them
Sources == <<"web", "rss", "telegram", "rospotrebnadzor_news", "tyumen_news">>

\* the sources parsed only when config has parsing.sources.<name>.enabled
OptionalSources == {"rospotrebnadzor_news", "tyumen_news"}

W1 == Extracted(Date(2024, 6, 15), 73, "web", TA, U1)
W2 == Extracted(Date(2024, 6, 15), 80, "web", TA, U1)
R1 == Extracted(Date(2024, 6, 16), 5, "rss", TB, U2)
R2 == Extracted(Date(2024, 6, 17), 120, "rss", TA, <<"https://", "r">>)
T1 == Extracted(Date(2024, 6, 14), 0, "telegram", TB, <<"https://", "t">>)
N1 == Extracted(Date(2024, 1, 15), 25, "rospotrebnadzor_news", TA, <<"https://", "n">>)
Y1 == Extracted(Date(2024, 6, 15), 7, "tyumen_news", TA, <<>>)

Raise == [kind |-> "raise", recs |-> <<>>]
Empty == [kind |-> "empty", recs |-> <<>>]
Data(recs) == [kind |-> "data", recs |-> recs]

\* what a parser call can do: raise, return [] or return records
FullOutcomes(s) ==
    CASE s = "web" -> {Raise, Empty, Data(<<W1>>), Data(<<W2>>)}
      [] s = "rss" -> {Raise, Empty, Data(<<R1, R2>>)}
      [] s = "telegram" -> {Raise, Empty, Data(<<T1>>)}
      [] s = "rospotrebnadzor_news" -> {Raise, Data(<<N1>>)}
      [] OTHER -> {Raise, Data(<<Y1>>)}

\* the same, cut down for the runs of two threads side by side
FewOutcomes(s) ==
    CASE s = "web" -> {Raise, Data(<<W1>>)}
      [] s = "rss" -> {Empty, Data(<<R1>>)}
      [] OTHER -> {Data(<<T1>>)}

\* the outcomes drawn in a specification: all of them, or the few
Outcomes(outs, s) == IF outs = "full" THEN FullOutcomes(s) ELSE FewOutcomes(s)

\* tables a run can find: built by save_tick_data calls on the empty table
InitialStores ==
    {<<>>,
     save_tick_data(<<>>, <<W1>>, <<0>>),
     save_tick_data(<<>>, <<R1, W2>>, <<0, 0>>)}

-----------------------------------------------------------------------------
(* Operations *)

NoFeed == [called |-> FALSE, history |-> <<>>, items |-> <<>>]
NoParsed == [called |-> FALSE, extractor |-> "", cand |-> <<>>,
             result |-> [none |-> TRUE, date |-> Date(0, 0, 0)]]
NoWorker == [pc |-> "off", file |-> [kind |-> "missing", minutes |-> 0], edits |-> 0,
             parser_config |-> "", interval_minutes |-> 0, run |-> "",
             retrain |-> "", cause |-> "", slept |-> 0]
NoRun == [data |-> <<>>, rows |-> <<>>, runs |-> 0]
NoCheck == [called |-> FALSE, item |-> W1, quality |-> FALSE, valid |-> FALSE]
ZeroCounts == [saved |-> 0, dup |-> 0, err |-> 0]
NoRiskCall == [called |-> FALSE, cases |-> 0, parser |-> RiskNone, db |-> RiskNone,
               app |-> RiskNone]
NoRequest == [pc |-> "idle", impl |-> "parser", max_retries |-> 0, attempt |-> 0,
              log |-> <<>>, result |-> "none"]
NoWeekly == [called |-> FALSE, db |-> <<>>, ml |-> [none |-> TRUE, weekly_data |-> <<>>]]
NoForecast == [called |-> FALSE, op |-> "none", weeks_ahead |-> 0,
               history |-> [wellformed |-> TRUE, recs |-> <<>>],
               env |-> [sklearn |-> FALSE, is_trained |-> FALSE, trainable |-> FALSE,
                        model |-> [kind |-> "raises", v |-> 0]],
               raised |-> FALSE, path |-> "none", points |-> <<>>]

InitIdle ==
    /\ seen_hashes = {}
    /\ fed = <<>>
    /\ pc = [t \in Threads |-> "idle"]
    /\ src_idx = [t \in Threads |-> 0]
    /\ outcome = [t \in Threads |-> [i \in DOMAIN Sources |-> "pending"]]
    /\ all_data = [t \in Threads |-> <<>>]
    /\ item_idx = [t \in Threads |-> 0]
    /\ counts = [t \in Threads |-> ZeroCounts]
    /\ run_no = [t \in Threads |-> 0]
    /\ prev = NoRun
    /\ checked = NoCheck
    /\ risk_call = NoRiskCall
    /\ req = NoRequest
    /\ weekly = NoWeekly
    /\ forecast = NoForecast
    /\ feed = NoFeed
    /\ parsed = NoParsed
    /\ worker = NoWorker

runVars == <<pc, src_idx, outcome, all_data, item_idx, counts, run_no, prev, rows0>>

\* DatabaseManager.save_tick_data(data_list), called with a list
SaveTickData ==
    \E data_list \in StoreBatches :
        \E pick \in FirstChoices(rows, data_list) :
            /\ Len(save_tick_data(rows, data_list, pick)) <= MaxRows
            /\ rows' = save_tick_data(rows, data_list, pick)
            /\ UNCHANGED <<procVars, callVars, seen_hashes, fed, enabled, checked, runVars>>

\* The table after the duplicate checker's verdict is applied (spec 4.5):
\* update the matched row, insert when not a duplicate, skip otherwise
ApplyVerdict(tbl, item, res) ==
    IF res.dup
    THEN IF res.existing # 0 THEN update_tick_data(tbl, res.existing, item) ELSE tbl
    ELSE Append(tbl, NewRow(item))

\* one candidate through DataVerifier.is_duplicate and then to the store
FeedCandidate ==
    \E item \in DedupItems :
        \E res \in is_duplicate(rows, seen_hashes, item) :
            /\ Len(fed) < MaxFed
            /\ seen_hashes' = res.seen
            /\ rows' = ApplyVerdict(rows, item, res)
            /\ fed' = Append(fed, item)
            /\ UNCHANGED <<procVars, callVars, enabled, checked, runVars>>

\* a record through verify_data_quality and _validate_data_item
CheckRecord ==
    \E item \in ValidatorItems :
        /\ ~checked.called
        /\ checked' = [called |-> TRUE, item |-> item,
                       quality |-> verify_data_quality(item),
                       valid |-> validate_data_item(item)]
        /\ UNCHANGED <<procVars, callVars, rows, seen_hashes, fed, enabled, runVars>>

\* update_all_data entered by thread t
StartRun(t) ==
    /\ pc[t] = "idle"
    /\ run_no[t] < MaxRuns
    /\ pc' = [pc EXCEPT ![t] = "parse"]
    /\ src_idx' = [src_idx EXCEPT ![t] = 0]
    /\ outcome' = [outcome EXCEPT ![t] = [i \in DOMAIN Sources |-> "pending"]]
    /\ all_data' = [all_data EXCEPT ![t] = <<>>]
    /\ item_idx' = [item_idx EXCEPT ![t] = 0]
    /\ counts' = [counts EXCEPT ![t] = ZeroCounts]
    /\ rows0' = rows
    /\ UNCHANGED <<procVars, callVars, rows, seen_hashes, fed, enabled, run_no, prev, checked>>

\* auto_update_worker: the loop body calls parser.update_all_data()
AutoTick == StartRun("auto")

\* POST /api/update: update_data starts a thread on parser.update_all_data
ManualUpdate == StartRun("manual")

\* the try block of the next source of update_all_data
ParseSource(t, outs) ==
    LET i == src_idx[t] + 1
        s == Sources[i]
        res == IF s \in OptionalSources /\ s \notin enabled
               THEN {[kind |-> "disabled", recs |-> <<>>]}
               ELSE Outcomes(outs, s)
    IN  /\ pc[t] = "parse"
        /\ \E o \in res :
              LET data == all_data[t] \o o.recs
              IN  /\ outcome' = [outcome EXCEPT ![t][i] = o.kind]
                  /\ all_data' = [all_data EXCEPT ![t] = data]
                  /\ src_idx' = [src_idx EXCEPT ![t] = i]
                  /\ pc' = [pc EXCEPT ![t] =
                              IF i < Len(Sources) THEN "parse"
                              ELSE IF data # <<>> THEN "store" ELSE "done"]
        /\ UNCHANGED <<procVars, callVars, rows, seen_hashes, fed, enabled, item_idx, counts, run_no,
                       prev, rows0, checked>>

\* one pass of the for loop over all_data
StoreItem(t) ==
    LET k == item_idx[t] + 1
    IN  /\ pc[t] = "store"
        /\ \E r \in ProcessItem(rows, all_data[t][k]) :
              /\ rows' = r.rows
              /\ counts' = [counts EXCEPT
                    ![t].saved = @ + (IF r.kind = "saved" THEN 1 ELSE 0),
                    ![t].dup = @ + (IF r.kind \in {"dup", "duperr"} THEN 1 ELSE 0),
                    ![t].err = @ + (IF r.kind \in {"err", "duperr"} THEN 1 ELSE 0)]
        /\ item_idx' = [item_idx EXCEPT ![t] = k]
        /\ pc' = [pc EXCEPT ![t] = IF k < Len(all_data[t]) THEN "store" ELSE "done"]
        /\ UNCHANGED <<procVars, callVars, seen_hashes, fed, enabled, src_idx, outcome, all_data, run_no,
                       prev, rows0, checked>>

\* update_all_data returns after logging the summary
EndRun(t) ==
    /\ pc[t] = "done"
    /\ pc' = [pc EXCEPT ![t] = "idle"]
    /\ run_no' = [run_no EXCEPT ![t] = @ + 1]
    /\ prev' = [data |-> all_data[t], rows |-> rows, runs |-> prev.runs + 1]
    /\ UNCHANGED <<procVars, callVars, rows, seen_hashes, fed, enabled, src_idx, outcome, all_data,
                   item_idx, counts, rows0, checked>>

-----------------------------------------------------------------------------
(* Specifications *)

\* the store under calls of save_tick_data
InitStore == rows = <<>> /\ rows0 = <<>> /\ enabled = {} /\ InitIdle
NextStore == SaveTickData
SpecStore == InitStore /\ [][NextStore]_vars

\* the duplicate checker driving the store
InitDedup == rows = <<>> /\ rows0 = <<>> /\ enabled = {} /\ InitIdle
NextDedup == FeedCandidate
SpecDedup == InitDedup /\ [][NextDedup]_vars

\* the validators
InitCheck == rows = <<>> /\ rows0 = <<>> /\ enabled = {} /\ InitIdle
NextCheck == CheckRecord
SpecCheck == InitCheck /\ [][NextCheck]_vars

\* the runs of the auto-update worker alone
Init ==
    /\ rows \in InitialStores
    /\ rows0 = rows
    /\ enabled \in {{}, OptionalSources}
    /\ InitIdle
Next ==
    \/ AutoTick
    \/ ParseSource("auto", "full")
    \/ StoreItem("auto")
    \/ EndRun("auto")
Spec == Init /\ [][Next]_vars

\* the worker and a manual update
InitSched == rows \in InitialStores /\ rows0 = rows /\ enabled = {} /\ InitIdle
NextSched ==
    \/ AutoTick
    \/ ManualUpdate
    \/ \E t \in Threads : ParseSource(t, "few")
    \/ \E t \in Threads : StoreItem(t)
    \/ \E t \in Threads : EndRun(t)
SpecSched == InitSched /\ [][NextSched]_vars

-----------------------------------------------------------------------------
(* Properties *)

Running == {t \in Threads : pc[t] # "idle"}

RowsWithUrl(tbl, url) == {i \in DOMAIN tbl : tbl[i].url = url}

\* cases of the last record of data that carries url
LastCases(data, url) ==
    LET ks == {k \in DOMAIN data : data[k].url = url}
    IN  data[CHOOSE k \in ks : \A j \in ks : j <= k].cases

\* a well-formed record: date in season, from 2020 on and not in the future,
\* 0 < cases <= 10000, source and title not empty, absolute http(s) url
WellFormed(item) ==
    /\ is_tick_season(item.date)
    /\ Ord(item.date) <= Ord(Today) /\ Ord(item.date) >= Ord(MinDate)
    /\ item.cases > 0 /\ item.cases <= MaxCases
    /\ item.source # "" /\ Strip(item.title) # <<>>
    /\ StartsWithHttp(item.url)

\* the row a record is expected to be stored as
StoredAs(row, item) ==
    /\ row.date = item.date /\ row.source = item.source /\ row.title = item.title
    /\ row.url = item.url /\ row.cases = item.cases
    /\ row.risk_level = calculate_risk_level(item.cases)

\* C1: once a row with a non-empty url is in the store, a run that ingests a
\* record with that url leaves the row count as it was and exactly one row
\* with that url, whose cases is the value of the latest ingest.
C1_ReingestByUrl ==
    \A t \in Threads :
        pc[t] = "done" =>
            \A k \in DOMAIN all_data[t] :
                LET url == all_data[t][k].url
                IN  (url # <<>> /\ RowsWithUrl(rows0, url) # {}) =>
                        /\ Len(rows) <= Len(rows0)
                        /\ Cardinality(RowsWithUrl(rows, url)) = 1
                        /\ \A i \in RowsWithUrl(rows, url) :
                              rows[i].cases = LastCases(all_data[t], url)

\* C2: whatever candidates went through the duplicate checker, the store
\* holds at most one row per non-empty url and at most one row per (source,
\* lower-cased title) among rows dated at most one day apart.
C2_DedupUnique ==
    \A i, j \in DOMAIN rows :
        i # j =>
            /\ ~(rows[i].url # <<>> /\ rows[i].url = rows[j].url)
            /\ ~(/\ rows[i].source = rows[j].source
                  /\ Lower(rows[i].title) = Lower(rows[j].title)
                  /\ Abs(Ord(rows[i].date) - Ord(rows[j].date)) <= DupDateSlack)

\* C3: after any calls of save_tick_data no two rows share a non-empty url,
\* and no two rows with an empty url share (date, source, trimmed lower-cased
\* title).
C3_SaveUnique ==
    \A i, j \in DOMAIN rows :
        i # j =>
            /\ ~(rows[i].url # <<>> /\ rows[i].url = rows[j].url)
            /\ ~(/\ rows[i].url = <<>> /\ rows[j].url = <<>>
                  /\ rows[i].date = rows[j].date
                  /\ rows[i].source = rows[j].source
                  /\ Strip(Lower(rows[i].title)) = Strip(Lower(rows[j].title)))

\* C4: a run over the same extracted records as the run before it ends with
\* the table the run before it ended with: no row added, no field changed.
C4_RerunIdempotent ==
    \A t \in Threads :
        (pc[t] = "done" /\ prev.runs >= 1 /\ all_data[t] = prev.data) =>
            rows = prev.rows

\* C4 witness: a second run over the same records, a well-formed one among
\* them, has gone through all of them.
C4_Witness ==
    \E t \in Threads :
        /\ pc[t] = "done" /\ prev.runs >= 1 /\ all_data[t] = prev.data
        /\ item_idx[t] = Len(all_data[t])
        /\ \E k \in DOMAIN all_data[t] : WellFormed(all_data[t][k])

Perms(seq) ==
    {[i \in DOMAIN seq |-> seq[f[i]]] :
        f \in {g \in [DOMAIN seq -> DOMAIN seq] :
                  \A a, b \in DOMAIN seq : a # b => g[a] # g[b]}}

RowSet(tbl) == {tbl[i] : i \in DOMAIN tbl}

\* the tables the duplicate checker can leave after the candidates of seq
RECURSIVE FeedAll(_, _, _)
FeedAll(tbl, seen, seq) ==
    IF seq = <<>> THEN {tbl}
    ELSE UNION {FeedAll(ApplyVerdict(tbl, Head(seq), r), r.seen, Tail(seq)) :
                    r \in is_duplicate(tbl, seen, Head(seq))}

\* C5: the rows left by the candidates fed so far are the rows every other
\* order of the same candidates leaves, from the same (empty) store.
C5_OrderIndependent ==
    \A p \in Perms(fed) :
        \E out \in FeedAll(<<>>, {}, p) : RowSet(out) = RowSet(rows)

\* C6: at most one thread is inside update_all_data at any time.
C6_SingleRun == Cardinality(Running) <= 1

\* C7: a run that got one well-formed record not yet in the store ends with
\* exactly one new row for it, carrying the risk level of its cases.
C7_NewRecordStored ==
    \A t \in Threads :
        pc[t] = "done" =>
            \A k \in DOMAIN all_data[t] :
                LET item == all_data[t][k]
                IN  (/\ WellFormed(item)
                     /\ RowsWithUrl(rows0, item.url) = {}
                     /\ \A j \in DOMAIN all_data[t] :
                           all_data[t][j].url = item.url => j = k) =>
                        /\ Cardinality(RowsWithUrl(rows, item.url)) = 1
                        /\ \A i \in RowsWithUrl(rows, item.url) : StoredAs(rows[i], item)

SourceOf(i) == Sources[i]

\* C8: when the parser of one source raised or returned nothing, the run
\* still went to every other source, and the well-formed records of the
\* other sources are rows of the store when the run ends.
C8_SourceFailureIsolated ==
    \A t \in Threads :
        (pc[t] = "done" /\ \E i \in DOMAIN Sources : outcome[t][i] \in {"raise", "empty"}) =>
            /\ \A i \in DOMAIN Sources : outcome[t][i] # "pending"
            /\ \A k \in DOMAIN all_data[t] :
                  WellFormed(all_data[t][k]) =>
                      \E r \in DOMAIN rows : rows[r].url = all_data[t][k].url

\* the part of C8 the code keeps: a failed source stops neither the parsing
\* of the later sources nor the pass over the records of the others
SourcesIsolated ==
    \A t \in Threads :
        pc[t] = "done" =>
            /\ \A i \in DOMAIN Sources : outcome[t][i] # "pending"
            /\ item_idx[t] = Len(all_data[t])
            /\ counts[t].saved + counts[t].err >= Len(all_data[t])

\* records of all_data[t] that came from the source of record k
SameSource(t, k) ==
    {j \in DOMAIN all_data[t] : all_data[t][j].source = all_data[t][k].source}

InRange(dt) == Ord(MinDate) <= Ord(dt) /\ Ord(dt) <= Ord(Today)

\* C10: a record that verify_data_quality or _validate_data_item accepts has
\* 2020-01-01 <= date <= today.
C10_ValidDateInRange ==
    checked.called =>
        /\ checked.quality => InRange(checked.item.date)
        /\ checked.valid => InRange(checked.item.date)

\* the part of C10 the code keeps: verify_data_quality
QualityDateInRange == (checked.called /\ checked.quality) => InRange(checked.item.date)

-----------------------------------------------------------------------------
(* Case counts and the season *)

\* extract_case_number over the numbers its patterns match in the text, in
\* the order the patterns are tried: the first one in (0, 10000], else 0
extract_case_number(nums) ==
    LET ok == {k \in DOMAIN nums : 0 < nums[k] /\ nums[k] <= MaxCases}
    IN  IF ok = {} THEN 0
        ELSE nums[CHOOSE k \in ok : \A j \in ok : k <= j]

\* numbers a text may carry around the keywords
TextNumbers == {0, 73, MaxCases, MaxCases + 1}

CasesInRange(item) == 0 <= item.cases /\ item.cases <= MaxCases

\* C11: a record that verify_data_quality or _validate_data_item accepts has
\* 0 <= cases <= 10000.
C11_ValidCasesInRange ==
    checked.called =>
        /\ checked.quality => CasesInRange(checked.item)
        /\ checked.valid => CasesInRange(checked.item)

\* the part of C11 the code keeps: verify_data_quality, and the filter of
\* extract_case_number
QualityCasesInRange ==
    /\ (checked.called /\ checked.quality) => CasesInRange(checked.item)
    /\ \A a, b \in TextNumbers :
          LET n == extract_case_number(<<a, b>>)
          IN  n = 0 \/ (0 < n /\ n <= MaxCases /\ n \in {a, b})

\* C12: a record with cases > 0 that verify_data_quality or
\* _validate_data_item accepts is dated inside 20 April .. 10 October.
C12_ValidInSeason ==
    (checked.called /\ checked.item.cases > 0) =>
        /\ checked.quality => is_tick_season(checked.item.date)
        /\ checked.valid => is_tick_season(checked.item.date)

\* the part of C12 the code keeps: verify_data_quality checks the season of a
\* record with cases > 0 only
QualityInSeason ==
    /\ (checked.called /\ checked.quality /\ checked.item.cases > 0) =>
          is_tick_season(checked.item.date)
    /\ (checked.called /\ checked.item.cases = 0 /\ InRange(checked.item.date)
          /\ checked.item.source = "web" /\ ~(checked.item.url = UFtp)) =>
          checked.quality

-----------------------------------------------------------------------------
(* Risk level *)

\* TickParser.calculate_risk_level with the default thresholds of its config
TickParser_calculate_risk_level(cases) ==
    IF cases = 0 THEN RiskNone
    ELSE IF cases < ThresholdLow THEN RiskLow
    ELSE IF cases < ThresholdModerate THEN RiskModerate
    ELSE IF cases < ThresholdHigh THEN RiskHigh
    ELSE RiskVeryHigh

\* the function with its last branch taken from the second threshold on
app_calculate_risk_level_noHigh(cases) ==
    IF cases = 0 THEN RiskNone
    ELSE IF cases < 50 THEN RiskLow
    ELSE IF cases < 100 THEN RiskModerate
    ELSE RiskVeryHigh

\* app.calculate_risk_level: the thresholds are literals of the function
app_calculate_risk_level(cases) ==
    IF cases = 0 THEN RiskNone
    ELSE IF cases < 50 THEN RiskLow
    ELSE IF cases < 100 THEN RiskModerate
    ELSE IF cases < 150 THEN RiskHigh
    ELSE RiskVeryHigh

\* largest cases value handed to the three functions
MaxRiskCases == 200

\* a cases value (a record's count or a weekly bucket sum) through the three
\* implementations
CalcRisk ==
    \E cases \in (0 - 1) .. MaxRiskCases :
        /\ risk_call' = [called |-> TRUE, cases |-> cases,
                         parser |-> TickParser_calculate_risk_level(cases),
                         db |-> calculate_risk_level(cases),
                         app |-> app_calculate_risk_level(cases)]
        /\ UNCHANGED <<procVars, rows, seen_hashes, fed, enabled, checked, runVars, req, weekly,
                       forecast>>

\* no call made yet, an empty table: where the specifications of the calls start
InitCalls == rows = <<>> /\ rows0 = <<>> /\ enabled = {} /\ InitIdle

NextRisk == CalcRisk
SpecRisk == InitCalls /\ [][NextRisk]_vars

\* the level the thresholds 50 / 100 / 150 give to cases >= 0
RiskFor(cases) ==
    CASE cases = 0 -> RiskNone
      [] 0 < cases /\ cases < 50 -> RiskLow
      [] 50 <= cases /\ cases < 100 -> RiskModerate
      [] 100 <= cases /\ cases < 150 -> RiskHigh
      [] cases >= 150 -> RiskVeryHigh

\* C13: with the default thresholds the three calculate_risk_level functions
\* return the same level for the same cases, and for cases >= 0 it is the level
\* of the boundaries 50, 100 and 150.
C13_RiskLevel ==
    risk_call.called =>
        /\ risk_call.parser = risk_call.db
        /\ risk_call.db = risk_call.app
        /\ risk_call.cases >= 0 => risk_call.app = RiskFor(risk_call.cases)

\* a bucket sum on the boundary 100 got High from the three functions
C13_Witness ==
    /\ risk_call.called
    /\ risk_call.cases = 100
    /\ risk_call.parser = RiskHigh /\ risk_call.db = RiskHigh /\ risk_call.app = RiskHigh

-----------------------------------------------------------------------------
(* make_request_with_retry *)

\* parsing.retry_count of the config, 3 when the key is missing
DefaultRetries == 3
MaxRetries == 3

\* what requests.get does in one attempt: a response with a status, or a
\* network error (ConnectionError, Timeout) with no response
Statuses == {200, 404, 429, 503}
Responses == {[err |-> FALSE, status |-> st] : st \in Statuses}
                 \cup {[err |-> TRUE, status |-> 0]}

\* response.raise_for_status() raises HTTPError
raise_for_status(st) == 400 <= st /\ st < 600

\* the attempt ends in the except branch
RequestException(r) == r.err \/ raise_for_status(r.status)

GetEvent(r) == [ev |-> "get", err |-> r.err, status |-> r.status]
SleepEvent == [ev |-> "sleep", err |-> FALSE, status |-> 0]

\* the except branch with time.sleep(delay) taken on every attempt
OnRequestExceptionSleepAlways(q, r) ==
    IF q.attempt < q.max_retries - 1
    THEN [q EXCEPT !.log = q.log \o <<GetEvent(r), SleepEvent>>, !.attempt = @ + 1]
    ELSE [q EXCEPT !.log = q.log \o <<GetEvent(r), SleepEvent>>, !.pc = "returned",
                   !.result = IF q.impl = "parser" THEN "None" ELSE "raised"]

\* the except branch of attempt q.attempt: sleep and go on, or give up
\* (TickParser returns None, TickActivityMonitor re-raises)
OnRequestException(q, r) ==
    IF q.attempt < q.max_retries - 1
    THEN [q EXCEPT !.log = q.log \o <<GetEvent(r), SleepEvent>>, !.attempt = @ + 1]
    ELSE [q EXCEPT !.log = Append(q.log, GetEvent(r)), !.pc = "returned",
                   !.result = IF q.impl = "parser" THEN "None" ELSE "raised"]

\* make_request_with_retry entered; range(0) returns None at once
StartRequest ==
    \E impl \in {"parser", "mite"}, n \in 0 .. MaxRetries :
        /\ req.pc = "idle"
        /\ req' = [pc |-> IF n > 0 THEN "loop" ELSE "returned", impl |-> impl,
                   max_retries |-> n, attempt |-> 0, log |-> <<>>,
                   result |-> IF n > 0 THEN "none" ELSE "None"]
        /\ UNCHANGED <<procVars, rows, seen_hashes, fed, enabled, checked, runVars, risk_call,
                       weekly, forecast>>

\* one pass of the for loop: requests.get, raise_for_status, return or except
Attempt ==
    \E r \in Responses :
        /\ req.pc = "loop"
        /\ req' = IF RequestException(r) THEN OnRequestException(req, r)
                  ELSE [req EXCEPT !.log = Append(req.log, GetEvent(r)),
                                   !.pc = "returned", !.result = "response"]
        /\ UNCHANGED <<procVars, rows, seen_hashes, fed, enabled, checked, runVars, risk_call,
                       weekly, forecast>>

NextFetch == StartRequest \/ Attempt
SpecFetch == InitCalls /\ [][NextFetch]_vars

Gets(log) == {i \in DOMAIN log : log[i].ev = "get"}
Sleeps(log) == {i \in DOMAIN log : log[i].ev = "sleep"}
Failed(e) == e.err \/ raise_for_status(e.status)

\* C14: a call issues at most max_retries GETs, returns the response of the
\* first attempt that succeeds, sleeps only between two attempts, and after
\* max_retries failed attempts reports failure.
C14_BoundedRetries ==
    LET log == req.log
    IN  /\ Cardinality(Gets(log)) <= req.max_retries
        /\ \A i \in Gets(log) :
              ~Failed(log[i]) =>
                  /\ i = Len(log)
                  /\ req.pc = "returned" /\ req.result = "response"
        /\ \A i \in Sleeps(log) :
              /\ i > 1 /\ log[i - 1].ev = "get" /\ Failed(log[i - 1])
              /\ req.pc = "returned" => (i < Len(log) /\ log[i + 1].ev = "get")
        /\ (req.pc = "returned" /\ \A i \in Gets(log) : Failed(log[i])) =>
              /\ Cardinality(Gets(log)) = req.max_retries
              /\ req.result \in {"None", "raised"}

\* the default three attempts all failed: three GETs, two sleeps, failure
C14_Witness ==
    /\ req.pc = "returned" /\ req.max_retries = DefaultRetries
    /\ Cardinality(Gets(req.log)) = DefaultRetries
    /\ Cardinality(Sleeps(req.log)) = DefaultRetries - 1
    /\ req.result = "None"

ClientError(e) == ~e.err /\ 400 <= e.status /\ e.status < 500 /\ e.status # 429

\* C15: no attempt follows a response with a 4xx status other than 429.
C15_ClientErrorStops ==
    \A i \in Gets(req.log) :
        ClientError(req.log[i]) => \A j \in Gets(req.log) : j <= i

\* the part of C15 the code keeps: a 5xx, a 429 or a network error is followed
\* by another attempt while attempts remain
RetriesOnFailure ==
    req.pc = "returned" =>
        \A i \in Gets(req.log) :
            (Failed(req.log[i]) /\ Cardinality({j \in Gets(req.log) : j <= i})
                                     < req.max_retries) =>
                \E j \in Gets(req.log) : j > i

-----------------------------------------------------------------------------
(* Weekly aggregation *)

\* date.weekday(): Monday = 0 .. Sunday = 6 (1970-01-01, day 719468, a Thursday)
weekday(dt) == (Ord(dt) - 719468 + 3) % 7

\* day of the year, 1 January = 0
YearDay(dt) == Ord(dt) - Ord(Date(dt.y, 1, 1))

\* strftime('%Y-%U'): the calendar year and the week number of the year with
\* Sunday as first day of the week, the days before the first Sunday in week 0
strftime_YU(dt) == <<dt.y, (YearDay(dt) + 7 - ((weekday(dt) + 1) % 7)) \div 7>>

\* date.isocalendar(): the ISO year and week are those of the Thursday of the
\* Monday-first week the date lies in
isocalendar(dt) ==
    LET thu == Ord(dt) - weekday(dt) + 3
        yr  == IF thu < Ord(Date(dt.y, 1, 1)) THEN dt.y - 1
               ELSE IF thu >= Ord(Date(dt.y + 1, 1, 1)) THEN dt.y + 1
               ELSE dt.y
    IN  [year |-> yr, week |-> (thu - Ord(Date(yr, 1, 1))) \div 7 + 1]

\* prepare_data: df['year'] + '_' + df['week'].zfill(2), the calendar year of
\* the date with its ISO week number
year_week(dt) == <<dt.y, isocalendar(dt).week>>

\* the one element of a singleton; { e(x) : x \in {v} } binds x to the value
\* of v, computed once
Only(S) == CHOOSE x \in S : TRUE

RECURSIVE SumCases(_, _)
\* agg 'sum' over the cases of the rows ids of df
SumCases(df, ids) ==
    Only({IF s = {} THEN 0
          ELSE LET i == CHOOSE i \in s : TRUE
               IN  df[i].cases + SumCases(df, s \ {i}) : s \in {ids}})

MinOrd(df, ids) == CHOOSE o \in {Ord(df[i].date) : i \in ids} :
                       \A i \in ids : o <= Ord(df[i].date)
MaxOrd(df, ids) == CHOOSE o \in {Ord(df[i].date) : i \in ids} :
                       \A i \in ids : o >= Ord(df[i].date)

\* the bucket of the first row of a group alone
WeekBucketFirstRow(df, key, ids) ==
    LET i == CHOOSE i \in ids : \A j \in ids : i <= j
    IN  [year_week |-> key, cases |-> df[i].cases, ids |-> ids,
         start_date |-> MinOrd(df, ids), end_date |-> MaxOrd(df, ids)]

\* one row of groupby('year_week').agg(cases: sum, date: min, max); ids are
\* the rows of df the group holds
WeekBucket(df, key, ids) ==
    [year_week |-> key, cases |-> SumCases(df, ids), ids |-> ids,
     start_date |-> MinOrd(df, ids), end_date |-> MaxOrd(df, ids)]

\* sort_values('start_date') of a set of buckets (their start dates differ)
SortByStart(bs) ==
    [k \in 1 .. Cardinality(bs) |->
        CHOOSE b \in bs :
            Cardinality({c \in bs : c.start_date < b.start_date}) = k - 1]

\* get_all_data_grouped_by_week over the table
get_all_data_grouped_by_week(tbl) ==
    LET keys == {strftime_YU(tbl[i].date) : i \in DOMAIN tbl}
    IN  SortByStart({WeekBucket(tbl, key,
                         {i \in DOMAIN tbl : strftime_YU(tbl[i].date) = key}) :
                     key \in keys})

\* groupby('year_week').agg(cases: sum, date: min) sorted by date, as written
\* in prepare_data and again in predict_next_weeks
weekly_by_year_week(df) ==
    SortByStart({WeekBucket(df, key, {i \in DOMAIN df : year_week(df[i].date) = key}) :
                 key \in {year_week(df[i].date) : i \in DOMAIN df}})

\* prepare_data up to its weekly_data frame; none stands for return None, None
prepare_data(historical_data) ==
    LET df == [i \in DOMAIN historical_data |->
                 [date |-> historical_data[i].date,
                  cases |-> IF historical_data[i].cases < 0 THEN 0
                            ELSE historical_data[i].cases]]
        weekly_data == weekly_by_year_week(df)
    IN  IF Len(historical_data) < 10 \/ Len(weekly_data) < 8
           \/ SumCases(df, DOMAIN df) = 0
        THEN [none |-> TRUE, weekly_data |-> <<>>]
        ELSE [none |-> FALSE, weekly_data |-> weekly_data]

\* rows of one week each: the Wednesdays from 1 May 2024 on
BaseHistory ==
    [k \in 1 .. 9 |-> NewRow(Extracted(
        IF k <= 5 THEN Date(2024, 5, 1 + 7 * (k - 1)) ELSE Date(2024, 6, 5 + 7 * (k - 6)),
        k, "web", TA, <<>>))]

\* dates around a week end and around a year end
WeekDates ==
    {Date(2024, 6, 15), Date(2024, 6, 16), Date(2024, 6, 17), Date(2024, 6, 19),
     Date(2023, 12, 31), Date(2024, 1, 1), Date(2024, 1, 3), Date(2024, 12, 30),
     Date(2025, 1, 1)}

\* number of rows added to the base rows
MaxWeekRows == 2

WeekRows == {NewRow(Extracted(dt, c, "web", TB, <<>>)) : dt \in WeekDates, c \in {0, 7}}

WeekStores ==
    {base \o extra :
        base \in {<<>>, BaseHistory},
        extra \in UNION {[1 .. n -> WeekRows] : n \in 1 .. MaxWeekRows}}

\* the table through both groupings
GroupByWeek ==
    /\ ~weekly.called
    /\ weekly' = [called |-> TRUE, db |-> get_all_data_grouped_by_week(rows),
                  ml |-> prepare_data(rows)]
    /\ UNCHANGED <<procVars, rows, seen_hashes, fed, enabled, checked, runVars, risk_call, req,
                   forecast>>

InitWeek == rows \in WeekStores /\ rows0 = rows /\ enabled = {} /\ InitIdle
NextWeek == GroupByWeek
SpecWeek == InitWeek /\ [][NextWeek]_vars

RECURSIVE SumBuckets(_)
SumBuckets(bs) ==
    Only({IF b = <<>> THEN 0 ELSE Head(b).cases + SumBuckets(Tail(b)) : b \in {bs}})

\* C16: the cases of the weekly buckets add up to the cases of the rows they
\* were grouped from.
C16_SumConserved ==
    weekly.called =>
        /\ SumBuckets(weekly.db) = SumCases(rows, DOMAIN rows)
        /\ ~weekly.ml.none => SumBuckets(weekly.ml.weekly_data) = SumCases(rows, DOMAIN rows)

\* two rows with cases fell into one bucket next to the base rows, in both
\* groupings
C16_Witness ==
    /\ weekly.called /\ ~weekly.ml.none
    /\ \E k \in DOMAIN weekly.db :
          Cardinality(weekly.db[k].ids) >= 2 /\ weekly.db[k].cases >= 14
    /\ \E k \in DOMAIN weekly.ml.weekly_data :
          Cardinality(weekly.ml.weekly_data[k].ids) >= 2

SameIsoWeek(a, b) == isocalendar(a) = isocalendar(b)

SameBucket(bs, i, j) == \E k \in DOMAIN bs : i \in bs[k].ids /\ j \in bs[k].ids

\* C17: two rows are in the same bucket exactly if their dates have the same
\* ISO year and ISO week.
C17_IsoWeekBuckets ==
    weekly.called =>
        \A i, j \in DOMAIN rows :
            /\ SameBucket(weekly.db, i, j) <=> SameIsoWeek(rows[i].date, rows[j].date)
            /\ ~weekly.ml.none =>
                  (SameBucket(weekly.ml.weekly_data, i, j)
                      <=> SameIsoWeek(rows[i].date, rows[j].date))

\* what the two groupings do keep: every row is in exactly one bucket, and the
\* buckets hold one %Y-%U week, or one calendar year and ISO week number, each
BucketsPartition ==
    weekly.called =>
        /\ \A i \in DOMAIN rows :
              Cardinality({k \in DOMAIN weekly.db : i \in weekly.db[k].ids}) = 1
        /\ \A i, j \in DOMAIN rows :
              SameBucket(weekly.db, i, j)
                  <=> strftime_YU(rows[i].date) = strftime_YU(rows[j].date)

-----------------------------------------------------------------------------
(* Forecaster *)

\* A history is a list of records with date and cases; wellformed = FALSE
\* stands for records that lack the key 'date'.  A float is carried in halves
\* (v stands for v / 2), so that int() has something to truncate.

\* int(a / b) for b > 0: truncation toward zero
TruncDiv(a, b) == IF a < 0 THEN 0 - ((0 - a) \div b) ELSE a \div b

Max(a, b) == IF a >= b THEN a ELSE b

ForecastPoint(dt, cases, i) ==
    [date |-> dt, cases |-> cases, week_number |-> i, is_forecast |-> TRUE]

\* df.sort_values('date').tail(56): the ids of the 56 latest records
Tail56(recs) ==
    {i \in DOMAIN recs :
        Cardinality({j \in DOMAIN recs :
            Ord(recs[j].date) > Ord(recs[i].date)
            \/ (Ord(recs[j].date) = Ord(recs[i].date) /\ j > i)}) < 56}

\* the try block of _simple_predict: the mean of the recent cases on every
\* future week; raised stands for an exception leaving the block
SimpleBody(h, weeks_ahead) ==
    IF h.recs = <<>> THEN [raised |-> FALSE, points |-> <<>>]
    ELSE IF ~h.wellformed THEN [raised |-> TRUE, points |-> <<>>]
    ELSE LET recent == Tail56(h.recs)
             avg_cases == TruncDiv(SumCases(h.recs, recent), Cardinality(recent))
             last_date == MaxOrd(h.recs, DOMAIN h.recs)
         IN  [raised |-> FALSE,
              points |-> [i \in 1 .. weeks_ahead |->
                            ForecastPoint(last_date + 7 * i, avg_cases, i)]]

\* _simple_predict with no except clause around its body
simple_predict_uncaught(h, weeks_ahead) == SimpleBody(h, weeks_ahead)

\* _simple_predict: except Exception returns []
simple_predict(h, weeks_ahead) ==
    LET b == SimpleBody(h, weeks_ahead)
    IN  IF b.raised THEN [raised |-> FALSE, points |-> <<>>] ELSE b

\* self.model.predict(X_scaled)[0] of the i-th pass of the loop, in halves.
\* The fitted model is opaque: whatever window it is given, it may return any
\* number or raise, so its answers are taken from the process and not
\* computed from the window.
model_predict(model, i) ==
    CASE model.kind = "raises" -> [raised |-> TRUE, pred |-> 0]
      [] model.kind = "breaks" -> [raised |-> i > 1, pred |-> model.v]
      [] model.kind = "const"  -> [raised |-> FALSE, pred |-> model.v]
      [] model.kind = "swings" -> [raised |-> FALSE,
                                   pred |-> IF i % 2 = 1 THEN model.v ELSE 0 - model.v]

\* the loop over range(weeks_ahead): pred = max(0, int(pred)) appended to
\* predictions; the first exception leaves the loop
PredictLoop(model, weeks_ahead) ==
    IF \E i \in 1 .. weeks_ahead : model_predict(model, i).raised
    THEN [raised |-> TRUE, predictions |-> <<>>]
    ELSE [raised |-> FALSE,
          predictions |-> [i \in 1 .. weeks_ahead |->
                             Max(0, TruncDiv(model_predict(model, i).pred, 2))]]

\* the predictions without the last week
ModelPointsShort(r, last_date, weeks_ahead) ==
    IF r.raised THEN [raised |-> TRUE, path |-> "model", points |-> <<>>]
    ELSE [raised |-> FALSE, path |-> "model",
          points |-> [i \in 1 .. weeks_ahead - 1 |->
                        ForecastPoint(last_date + 7 * i, r.predictions[i], i)]]

\* the loop's predictions laid on the weeks after last_date
ModelPoints(r, last_date, weeks_ahead) ==
    IF r.raised THEN [raised |-> TRUE, path |-> "model", points |-> <<>>]
    ELSE [raised |-> FALSE, path |-> "model",
          points |-> [i \in 1 .. weeks_ahead |->
                        ForecastPoint(last_date + 7 * i, r.predictions[i], i)]]

\* the try block of predict_next_weeks from the DataFrame on
ModelBody(env, h, weeks_ahead) ==
    IF h.recs = <<>> \/ ~h.wellformed THEN [raised |-> TRUE, path |-> "model", points |-> <<>>]
    ELSE Only({
        IF Len(weekly_data) < 4
        THEN [raised |-> FALSE, path |-> "baseline",
              points |-> simple_predict(h, weeks_ahead).points]
        ELSE Only({ModelPoints(r, weekly_data[Len(weekly_data)].start_date, weeks_ahead) :
                   r \in {PredictLoop(env.model, weeks_ahead)}}) :
        weekly_data \in {weekly_by_year_week(h.recs)}})

\* train_model: prepare_data must give examples and a model must fit with a
\* finite score; any exception inside makes it return False
train_model(env, h) ==
    /\ h.wellformed
    /\ ~prepare_data(h.recs).none
    /\ env.trainable

\* the result of _simple_predict handed on by predict_next_weeks
Baseline(h, weeks_ahead) ==
    Only({[raised |-> simple.raised, path |-> "baseline", points |-> simple.points] :
          simple \in {simple_predict(h, weeks_ahead)}})

\* predict_next_weeks(historical_data, weeks_ahead)
predict_next_weeks(env, h, weeks_ahead) ==
    IF ~env.sklearn THEN Baseline(h, weeks_ahead)
    ELSE IF ~env.is_trained /\ ~train_model(env, h) THEN Baseline(h, weeks_ahead)
    ELSE Only({IF b.raised THEN Baseline(h, weeks_ahead) ELSE b :
               b \in {ModelBody(env, h, weeks_ahead)}})

\* date(2026, 1, 1) <= d <= date(2026, 12, 31), on day numbers
In2026(d) == Ord(Date(2026, 1, 1)) <= d /\ d <= Ord(Date(2026, 12, 31))

\* get_forecast_for_2026(historical_data)
get_forecast_for_2026(env, h) ==
    IF h.recs = <<>> \/ ~h.wellformed
    THEN [raised |-> FALSE, path |-> "empty", points |-> <<>>, weeks_ahead |-> 0]
    ELSE LET recent == SelectSeq(h.recs, LAMBDA d : Ord(d.date) >= Ord(Date(2024, 1, 1)))
             filtered_data == IF Len(recent) < 10 THEN h.recs ELSE recent
             weeks == IF Today.y >= 2026
                      THEN (Ord(Date(2026, 12, 31)) - Ord(Today)) \div 7
                      ELSE (Ord(Date(2026, 12, 31)) - Ord(Date(2026, 1, 1))) \div 7
             weeks_ahead == Max(52, weeks)
         IN  Only({
                IF f.raised
                THEN [raised |-> FALSE, path |-> "empty", points |-> <<>>,
                      weeks_ahead |-> weeks_ahead]
                ELSE [raised |-> FALSE, path |-> f.path, weeks_ahead |-> weeks_ahead,
                      points |-> SelectSeq(f.points, LAMBDA p : In2026(p.date))] :
                f \in {predict_next_weeks(env, [h EXCEPT !.recs = filtered_data],
                                          weeks_ahead)}})

\* largest horizon asked of predict_next_weeks
MaxHorizon == 3

\* ten Wednesdays in a row, ten weeks
Weeks2024 ==
    <<Date(2024, 5, 1), Date(2024, 5, 8), Date(2024, 5, 15), Date(2024, 5, 22),
      Date(2024, 5, 29), Date(2024, 6, 5), Date(2024, 6, 12), Date(2024, 6, 19),
      Date(2024, 6, 26), Date(2024, 7, 3)>>
Weeks2025 ==
    <<Date(2025, 11, 5), Date(2025, 11, 12), Date(2025, 11, 19), Date(2025, 11, 26),
      Date(2025, 12, 3), Date(2025, 12, 10), Date(2025, 12, 17), Date(2025, 12, 24),
      Date(2025, 12, 31), Date(2026, 1, 7)>>

\* histories: empty, too short, nine and ten weeks, all zero, negative,
\* and records without 'date'
Histories ==
    {[wellformed |-> TRUE, recs |-> <<>>]}
    \cup UNION {
        {[wellformed |-> wf, recs |-> [i \in 1 .. 2 |-> [date |-> ds[i], cases |-> 4 * i]]] :
            wf \in BOOLEAN}
        \cup {[wellformed |-> TRUE,
               recs |-> [i \in 1 .. n |-> [date |-> ds[i], cases |-> c * i]]] :
                 n \in {9, 10}, c \in {0 - 5, 0, 3}} :
        ds \in {Weeks2024, Weeks2025}}

\* the process the call runs in: scikit-learn importable or not, a model
\* fitted by an earlier call or not, whether fitting succeeds, and the model
Envs ==
    [sklearn : BOOLEAN, is_trained : BOOLEAN, trainable : BOOLEAN,
     model : {[kind |-> "raises", v |-> 0], [kind |-> "breaks", v |-> 25],
              [kind |-> "const", v |-> 0 - 7], [kind |-> "swings", v |-> 25]}]

PredictNextWeeks ==
    /\ ~forecast.called
    /\ \E env \in Envs, h \in Histories, k \in 0 .. MaxHorizon :
        \E f \in {predict_next_weeks(env, h, k)} :
            /\ forecast' = [called |-> TRUE, op |-> "predict_next_weeks", env |-> env,
                            history |-> h, weeks_ahead |-> k, raised |-> f.raised,
                            path |-> f.path, points |-> f.points]
            /\ UNCHANGED <<procVars, rows, seen_hashes, fed, enabled, checked, runVars, risk_call,
                           req, weekly>>

GetForecastFor2026 ==
    /\ ~forecast.called
    /\ \E env \in Envs, h \in Histories :
        \E f \in {get_forecast_for_2026(env, h)} :
            /\ forecast' = [called |-> TRUE, op |-> "get_forecast_for_2026", env |-> env,
                            history |-> h, weeks_ahead |-> f.weeks_ahead,
                            raised |-> f.raised, path |-> f.path, points |-> f.points]
            /\ UNCHANGED <<procVars, rows, seen_hashes, fed, enabled, checked, runVars, risk_call,
                           req, weekly>>

NextForecast == PredictNextWeeks \/ GetForecastFor2026
SpecForecast == InitCalls /\ [][NextForecast]_vars

\* the trained model cannot be used: scikit-learn is missing, or no model is
\* fitted and train_model fails
Unmet(env, h) == ~env.sklearn \/ (~env.is_trained /\ ~train_model(env, h))

EightWeeks(h) == h.wellformed /\ Len(weekly_by_year_week(h.recs)) >= 8

C20_NonNegative ==
    forecast.called => \A i \in DOMAIN forecast.points : forecast.points[i].cases >= 0

\* the part of C20 the code keeps: the points of the fitted model, and the
\* points of the baseline on a history without negative cases
ModelNonNegative ==
    (forecast.called
        /\ (forecast.path = "model"
               \/ \A j \in DOMAIN forecast.history.recs : forecast.history.recs[j].cases >= 0)) =>
        \A i \in DOMAIN forecast.points : forecast.points[i].cases >= 0

-----------------------------------------------------------------------------
(* Baseline forecast *)

RECURSIVE SlidingWindow(_, _)
\* n further values, each the truncated mean of the four values before it
SlidingWindow(vals, n) ==
    IF n = 0 THEN vals
    ELSE LET len == Len(vals)
             s == vals[len] + vals[len - 1] + vals[len - 2] + vals[len - 3]
         IN  SlidingWindow(Append(vals, TruncDiv(s, 4)), n - 1)

\* the weekly values of a history, oldest first
WeeklyValues(h) ==
    LET w == weekly_by_year_week(h.recs) IN [k \in DOMAIN w |-> w[k].cases]

\* C21: every point of the baseline is the mean of the four weekly values
\* before it, the points already predicted among them.
C21_SlidingAverage ==
    (forecast.called /\ forecast.op = "predict_next_weeks"
        /\ forecast.path = "baseline" /\ EightWeeks(forecast.history)) =>
        LET known == WeeklyValues(forecast.history)
            all == SlidingWindow(known, forecast.weeks_ahead)
        IN  \A i \in DOMAIN forecast.points :
                forecast.points[i].cases = all[Len(known) + i]

\* what _simple_predict does give: one value, int(mean) of the recent
\* records, on every predicted week
BaselineConstant ==
    (forecast.called /\ forecast.op = "predict_next_weeks"
        /\ forecast.path = "baseline") =>
        \A i \in DOMAIN forecast.points :
            /\ forecast.points[i].cases = forecast.points[1].cases
            /\ forecast.points[i].cases =
                  TruncDiv(SumCases(forecast.history.recs, DOMAIN forecast.history.recs),
                           Len(forecast.history.recs))

-----------------------------------------------------------------------------
(* News feed *)

\* A record of historical_data carries date, cases and location; location ""
\* stands for None.  An item carries its date as a day number and its
\* location as the list of the names joined in it; the text is left out.

\* days_back = 30, and news_items[:20]
DaysBack == 30
FeedCap == 20

NewsItem(type, priority, date, location, cases) ==
    [type |-> type, priority |-> priority, date |-> date, location |-> location,
     cases |-> cases]

\* sort_values('cases', ascending=False) of a set of grouped rows: every
\* order with the cases not increasing (rows of equal cases in any order)
ByCasesDesc(G) ==
    {s \in [1 .. Cardinality(G) -> G] :
        /\ \A a, b \in 1 .. Cardinality(G) : a # b => s[a] # s[b]
        /\ \A a \in 1 .. Cardinality(G) - 1 : s[a].cases >= s[a + 1].cases}

\* frame.head(n)
HeadN(s, n) == SubSeq(s, 1, IF Len(s) < n THEN Len(s) ELSE n)

\* priority_order = {'high': 3, 'medium': 2, 'low': 1}, 0 for any other
PriorityOrder(p) ==
    CASE p = "high" -> 3 [] p = "medium" -> 2 [] p = "low" -> 1 [] OTHER -> 0

\* recent_data.groupby('location').agg(cases sum, date max), None keys dropped
LocationData(df, recent) ==
    {[location |-> l,
      cases    |-> SumCases(df, {i \in recent : df[i].location = l}),
      date     |-> MaxOrd(df, {i \in recent : df[i].location = l})] :
        l \in {df[i].location : i \in recent} \ {""}}

\* recent_data.groupby('date').agg(cases sum, location the first names joined);
\* split(',')[0] of the joined names is the first name of the day
DailyData(df, recent) ==
    {LET ids   == {i \in recent : Ord(df[i].date) = d}
         named == {i \in ids : df[i].location # ""}
     IN  [date     |-> d,
          cases    |-> SumCases(df, ids),
          location |-> IF named = {} THEN ""
                       ELSE df[CHOOSE i \in named : \A j \in named : i <= j].location] :
        d \in {Ord(df[i].date) : i \in recent}}

\* section 1, one row of location_data.head(10): a spike, an activity item or
\* nothing (type "none")
LocationItem(df, row) ==
    LET cutoff      == Ord(Today) - DaysBack
        prev_cutoff == cutoff - DaysBack
        prev_cases  == SumCases(df, {i \in DOMAIN df :
                           /\ Ord(df[i].date) >= prev_cutoff
                           /\ Ord(df[i].date) < cutoff
                           /\ df[i].location = row.location})
    IN  IF row.cases > 0 /\ 2 * row.cases > 3 * prev_cases /\ row.cases >= 2
        THEN NewsItem("spike", IF row.cases >= 10 THEN "high" ELSE "medium",
                      row.date, <<row.location>>, row.cases)
        ELSE IF row.cases > 0 /\ row.cases >= 5
        THEN NewsItem("activity", "medium", row.date, <<row.location>>, row.cases)
        ELSE NewsItem("none", "low", 0, <<>>, 0)

\* section 2, one row of daily_data.head(5): a daily spike against the mean of
\* the days before it, or nothing; "region" is the text 'Тюменской области' the
\* item names when its day has no location
DailyItem(df, recent, row) ==
    LET before == {i \in recent : Ord(df[i].date) < row.date}
        days   == Cardinality({Ord(df[i].date) : i \in before})
        total  == SumCases(df, before)
    IN  IF row.cases >= 3 /\ row.cases * days > 2 * total
                          /\ (days = 0 => row.cases > 0)
        THEN NewsItem("daily_spike", "high", row.date,
                      <<IF row.location = "" THEN "region" ELSE row.location>>,
                      row.cases)
        ELSE NewsItem("none", "low", 0, <<>>, 0)

\* section 3: recent_data grouped by ISO week number, in the order of the week
\* numbers; the last week against the mean of the two before it
TrendItems(df, recent) ==
    LET wk(i)  == isocalendar(df[i].date).week
        weeks  == {wk(i) : i \in recent}
        sum(w) == SumCases(df, {i \in recent : wk(i) = w})
        below(w) == Cardinality({v \in weeks : v > w})
        last   == CHOOSE w \in weeks : below(w) = 0
        prev1  == CHOOSE w \in weeks : below(w) = 1
        prev2  == CHOOSE w \in weeks : below(w) = 2
    IN  IF Cardinality(weeks) >= 3
           /\ 20 * sum(last) > 13 * (sum(prev1) + sum(prev2))
           /\ sum(last) >= 5
        THEN <<NewsItem("trend", "medium", Ord(Today), <<>>, sum(last))>>
        ELSE <<>>

\* section 4: the total of location_data.head(3)
SummaryItems(location_data) ==
    LET top   == HeadN(location_data, 3)
        total == SumCases(top, DOMAIN top)
    IN  IF Len(top) > 0 /\ total >= 10
        THEN <<NewsItem("summary", "low", Ord(Today),
                        [k \in DOMAIN top |-> top[k].location], total)>>
        ELSE <<>>

\* the sort key (priority_order.get(priority, 0), date) of an item
FeedKeyLess(a, b) ==
    \/ PriorityOrder(a.priority) < PriorityOrder(b.priority)
    \/ PriorityOrder(a.priority) = PriorityOrder(b.priority) /\ a.date < b.date

\* the same sort without reverse=True
SortFeedAscending(items) ==
    LET n       == Len(items)
        rank(j) == 1 + Cardinality({i \in 1 .. n :
                        \/ FeedKeyLess(items[i], items[j])
                        \/ ~FeedKeyLess(items[j], items[i]) /\ i < j})
    IN  [k \in 1 .. n |-> items[CHOOSE j \in 1 .. n : rank(j) = k]]

\* news_items.sort(key=..., reverse=True): descending by key, items of equal
\* key in their order of derivation
SortFeed(items) ==
    LET n       == Len(items)
        rank(j) == 1 + Cardinality({i \in 1 .. n :
                        \/ FeedKeyLess(items[j], items[i])
                        \/ ~FeedKeyLess(items[i], items[j]) /\ i < j})
    IN  [k \in 1 .. n |-> items[CHOOSE j \in 1 .. n : rank(j) = k]]

\* generate_news_feed(historical_data): the feeds it can return, one for each
\* order pandas may give to rows of equal cases
generate_news_feed(historical_data) ==
    LET df     == historical_data
        recent == {i \in DOMAIN df : Ord(df[i].date) >= Ord(Today) - DaysBack}
    IN  IF Len(historical_data) < 5 \/ recent = {} THEN {<<>>}
        ELSE {LET top10 == HeadN(location_data, 10)
                  top5  == HeadN(daily_data, 5)
                  found == [k \in DOMAIN top10 |-> LocationItem(df, top10[k])]
                           \o [k \in DOMAIN top5 |-> DailyItem(df, recent, top5[k])]
                  news_items == SelectSeq(found, LAMBDA x : x.type # "none")
                                \o TrendItems(df, recent)
                                \o SummaryItems(location_data)
              IN  HeadN(SortFeed(news_items), FeedCap) :
                 location_data \in ByCasesDesc(LocationData(df, recent)),
                 daily_data \in ByCasesDesc(DailyData(df, recent))}

\* historical_data of two localities with an earlier and a current period, a
\* day without a location and an old record; cases -1 stands for a record
\* that is left out
NewsHistories ==
    LET NewsRecord(dt, location, cases) ==
            [date |-> dt, location |-> location, cases |-> cases]
    IN
    {SelectSeq(<<NewsRecord(Date(2026, 8, 1), "", old),
                 NewsRecord(Date(2026, 9, 20), "Tyumen", ap),
                 NewsRecord(Date(2026, 9, 25), "Ishim", bp),
                 NewsRecord(Date(2026, 10, 20), "Ishim", br),
                 NewsRecord(Date(2026, 10, 28), "", fr),
                 NewsRecord(Date(2026, 11, 2), "Tyumen", ar)>>,
               LAMBDA r : r.cases >= 0) :
        old \in {0 - 1, 0}, ap \in {0 - 1, 1, 2, 8}, bp \in {0 - 1, 2},
        br \in {0 - 1, 3, 6}, fr \in {0 - 1, 7}, ar \in {0 - 1, 1, 2, 3, 12}}

GenerateNewsFeed ==
    /\ ~feed.called
    /\ \E h \in NewsHistories :
        \E items \in generate_news_feed(h) :
            /\ feed' = [called |-> TRUE, history |-> h, items |-> items]
            /\ UNCHANGED <<parsed, worker, rows, seen_hashes, fed, enabled, checked,
                           runVars, callVars>>

SpecNews == InitCalls /\ [][GenerateNewsFeed]_vars

\* the indices of the records of a locality in the recency window, and in the
\* window of the same length before it
CurrentIds(h, l) ==
    {i \in DOMAIN h : h[i].location = l /\ Ord(h[i].date) >= Ord(Today) - DaysBack}
PreviousIds(h, l) ==
    {i \in DOMAIN h : /\ h[i].location = l
                      /\ Ord(h[i].date) >= Ord(Today) - 2 * DaysBack
                      /\ Ord(h[i].date) < Ord(Today) - DaysBack}
SpikeRule(h, items) ==
    \A l \in {h[i].location : i \in DOMAIN h} \ {""} :
        CurrentIds(h, l) # {} =>
            LET current  == SumCases(h, CurrentIds(h, l))
                previous == SumCases(h, PreviousIds(h, l))
                spikes   == {k \in DOMAIN items : /\ items[k].type = "spike"
                                                  /\ items[k].location = <<l>>}
            IN  /\ spikes # {} <=> (2 * current > 3 * previous /\ current >= 2)
                /\ \A k \in spikes :
                       items[k].priority = IF current >= 10 THEN "high" ELSE "medium"

\* C22: for every locality with records in the recency window, the feed has a
\* spike item for it if and only if current > 1.5 x previous and current >= 2,
\* and the item's priority is high when current >= 10 and medium otherwise
C22_SpikeRule == feed.called => SpikeRule(feed.history, feed.items)

\* what the code keeps: the rule for a history of at least five records (and
\* of at most ten localities, as every history here is)
SpikeRuleFromFiveRecords ==
    (feed.called /\ Len(feed.history) >= 5) => SpikeRule(feed.history, feed.items)

\* C23: the feed has at most 20 items, in the order of priority descending
\* (high, medium, low) and, within a priority, of date descending
C23_FeedSorted ==
    feed.called =>
        /\ Len(feed.items) <= FeedCap
        /\ \A a, b \in DOMAIN feed.items :
               a < b => ~FeedKeyLess(feed.items[a], feed.items[b])

\* a feed with items of all three priorities and two dates within one priority
C23_Witness ==
    /\ feed.called
    /\ {feed.items[k].priority : k \in DOMAIN feed.items} = {"high", "medium", "low"}
    /\ \E a, b \in DOMAIN feed.items :
           /\ feed.items[a].priority = feed.items[b].priority
           /\ feed.items[a].date # feed.items[b].date

-----------------------------------------------------------------------------
(* Frame of the store *)

\* C24: a store operation leaves date, source, title and url of every
\* existing row unchanged, and the row count never decreases
C24_UpdateFrame ==
    [][/\ Len(rows') >= Len(rows)
       /\ \A i \in DOMAIN rows :
              /\ rows'[i].date = rows[i].date
              /\ rows'[i].source = rows[i].source
              /\ rows'[i].title = rows[i].title
              /\ rows'[i].url = rows[i].url]_vars

\* what the code keeps: the key of a row (date, source, title) and the row
\* count; an update overwrites cases, risk_level, content and url
UpdateKeepsKey ==
    [][/\ Len(rows') >= Len(rows)
       /\ \A i \in DOMAIN rows :
              /\ rows'[i].date = rows[i].date
              /\ rows'[i].source = rows[i].source
              /\ rows'[i].title = rows[i].title
              /\ rows'[i].risk_level = calculate_risk_level(rows'[i].cases)]_vars

-----------------------------------------------------------------------------
(* Dates of the extracted records *)

\* item_date = None
NoDate == Date(0, 0, 0)

\* what an extractor returns for one candidate: None, or a record with a date
NoRecord == [none |-> TRUE, date |-> NoDate]
Record(dt) == [none |-> FALSE, date |-> dt]

\* A candidate is the dates its page resolves to, NoDate where a lookup finds
\* nothing or fails: for an article the date dateutil reads in date_text, the
\* date of a regular-expression pattern, the date in the URL; for an RSS
\* entry published_parsed and the parsed 'published' string; for a VK post the
\* datetime attribute and the parsed text of the date element.

\* the validation of parse_article_page after a pattern or the URL gave a
\* date: a future date becomes today, a date before 2020 drops the record
ArticleValidated(item_date) ==
    IF Ord(item_date) > Ord(Today) THEN Record(Today)
    ELSE IF Ord(item_date) < Ord(MinDate) THEN NoRecord
    ELSE Record(item_date)

\* parse_article_page, the date of the record
parse_article_page(c) ==
    IF c[1] # NoDate THEN Record(c[1])
    ELSE IF c[2] # NoDate THEN ArticleValidated(c[2])
    ELSE IF c[3] # NoDate THEN ArticleValidated(c[3])
    ELSE NoRecord

\* parse_rss_feed, one entry with a keyword
parse_rss_feed(c) ==
    IF c[1] # NoDate THEN Record(c[1])
    ELSE IF c[2] # NoDate THEN Record(c[2])
    ELSE Record(Today)

\* parse_vk_group, one post with a keyword
parse_vk_group(c) ==
    IF c[1] # NoDate THEN Record(c[1])
    ELSE IF c[2] # NoDate THEN Record(c[2])
    ELSE Record(Today)

\* the dates a lookup can give: none, old, in range, today, in the future
PageDates == {NoDate, Date(2019, 12, 31), Date(2024, 6, 15), Today, Date(2026, 11, 5)}

ParseCandidate ==
    /\ ~parsed.called
    /\ \E c \in [1 .. 3 -> PageDates] :
        \/ parsed' = [called |-> TRUE, extractor |-> "article", cand |-> c,
                      result |-> parse_article_page(c)]
        \/ /\ c[3] = NoDate
           /\ parsed' = [called |-> TRUE, extractor |-> "rss", cand |-> c,
                         result |-> parse_rss_feed(c)]
        \/ /\ c[3] = NoDate
           /\ parsed' = [called |-> TRUE, extractor |-> "vk", cand |-> c,
                         result |-> parse_vk_group(c)]
    /\ UNCHANGED <<feed, worker, rows, seen_hashes, fed, enabled, checked, runVars,
                   callVars>>

SpecParse == InitCalls /\ [][ParseCandidate]_vars

Resolvable(c) == {c[k] : k \in DOMAIN c} \ {NoDate}
OutOfRange(dt) == Ord(dt) > Ord(Today) \/ Ord(dt) < Ord(MinDate)

\* C25: a candidate whose only resolvable date is in the future or before
\* 2020-01-01 yields no record, and so does a candidate without a date; the
\* date of a record is never another date than a resolved one
C25_NoDateReplaced ==
    parsed.called =>
        /\ (\A dt \in Resolvable(parsed.cand) : OutOfRange(dt)) => parsed.result.none
        /\ ~parsed.result.none => parsed.result.date \in Resolvable(parsed.cand)

\* what the code keeps: an article without a resolvable date, or whose date
\* comes from a pattern or the URL and is before 2020, yields no record
ArticleDropsOldOrMissing ==
    (parsed.called /\ parsed.extractor = "article" /\ parsed.cand[1] = NoDate) =>
        /\ Resolvable(parsed.cand) = {} => parsed.result.none
        /\ (\A dt \in Resolvable(parsed.cand) : Ord(dt) < Ord(MinDate))
               => parsed.result.none

-----------------------------------------------------------------------------
(* Configuration loading and the auto-update worker *)

\* config/config.json: absent, not JSON, or a JSON object with or without
\* parsing.auto_update_interval_minutes (minutes 0: the key is absent)
ConfigFiles ==
    {[kind |-> "missing", minutes |-> 0], [kind |-> "malformed", minutes |-> 0],
     [kind |-> "valid", minutes |-> 0], [kind |-> "valid", minutes |-> 5]}

\* the default of config.get(...).get('auto_update_interval_minutes', 20), and
\* the minutes slept after an error, time.sleep(5 * 60)
DefaultInterval == 20
ErrorSleep == 5

\* how often the file is rewritten while the program runs
MaxEdits == 2

WorkerFrame == UNCHANGED <<feed, parsed, rows, seen_hashes, fed, enabled, checked,
                           runVars, callVars>>

\* the file is rewritten by its owner
WriteConfig ==
    /\ worker.pc # "off"
    /\ worker.edits < MaxEdits
    /\ \E f \in ConfigFiles \ {worker.file} :
           worker' = [worker EXCEPT !.file = f, !.edits = @ + 1]
    /\ WorkerFrame

\* logger = setup_logger() at import: only FileNotFoundError is caught, so
\* the JSONDecodeError of a malformed file leaves the import and the program
setup_logger ==
    /\ worker.pc = "off"
    /\ \E f \in ConfigFiles :
           worker' = [worker EXCEPT !.file = f,
                         !.pc = IF f.kind = "malformed" THEN "aborted" ELSE "init"]
    /\ WorkerFrame

\* TickParser.__init__: self.config = self._load_config(), {} on any
\* exception; then the worker thread is started
TickParser_load_config ==
    /\ worker.pc = "init"
    /\ worker' = [worker EXCEPT !.pc = "lookup",
                     !.parser_config = IF worker.file.kind = "valid" THEN "file"
                                       ELSE "defaults"]
    /\ WorkerFrame

\* auto_update_worker, the interval lookup: json.load raises on a malformed
\* file and the outer except takes over, before update_all_data is called
IntervalLookup ==
    /\ worker.pc = "lookup"
    /\ worker' =
         IF worker.file.kind = "malformed"
         THEN [worker EXCEPT !.pc = "sleep_error", !.cause = "config", !.slept = ErrorSleep]
         ELSE [worker EXCEPT !.pc = "run", !.cause = "",
                  !.interval_minutes = IF worker.file.kind = "valid" /\ worker.file.minutes # 0
                                       THEN worker.file.minutes ELSE DefaultInterval]
    /\ WorkerFrame

\* parser.update_all_data() returns or raises
WorkerRun ==
    /\ worker.pc = "run"
    /\ \/ worker' = [worker EXCEPT !.pc = "retrain", !.run = "ok"]
       \/ worker' = [worker EXCEPT !.pc = "sleep_error", !.run = "raised",
                        !.cause = "run", !.slept = ErrorSleep]
    /\ WorkerFrame

\* the inner try: the forecaster is retrained, skipped for a short history, or
\* fails; the failure is logged and time.sleep(interval_minutes * 60) follows
WorkerRetrain ==
    /\ worker.pc = "retrain"
    /\ \E r \in {"trained", "skipped", "failed"} :
           worker' = [worker EXCEPT !.pc = "sleep", !.retrain = r,
                         !.slept = worker.interval_minutes]
    /\ WorkerFrame

\* time.sleep returns and the loop starts over
WorkerWake ==
    /\ worker.pc \in {"sleep", "sleep_error"}
    /\ worker' = [worker EXCEPT !.pc = "lookup"]
    /\ WorkerFrame

WorkerStep ==
    \/ setup_logger \/ TickParser_load_config \/ IntervalLookup
    \/ WorkerRun \/ WorkerRetrain \/ WorkerWake
NextWorker == WorkerStep \/ WriteConfig

\* the thread and the sleeps make progress; nothing obliges the owner of the
\* file to rewrite it
SpecWorker == InitCalls /\ [][NextWorker]_vars /\ WF_vars(WorkerStep)

\* C26: a missing or malformed configuration file never aborts startup and
\* never keeps the worker from the pipeline run: no loader fails on it
C26_ConfigDefaults ==
    /\ worker.pc # "aborted"
    /\ worker.pc = "sleep_error" => worker.cause # "config"

\* what the code keeps: a missing file never fails a loader, and
\* TickParser._load_config takes the defaults for a malformed file as well
MissingConfigDefaults ==
    [][/\ (worker.pc = "off" /\ worker'.pc = "aborted") => worker'.file.kind = "malformed"
       /\ (worker.pc = "lookup" /\ worker'.pc = "sleep_error")
              => worker.file.kind = "malformed"
       /\ (worker.pc = "lookup" /\ worker'.pc = "run") =>
              worker'.interval_minutes = IF worker.file.minutes # 0
                                         THEN worker.file.minutes ELSE DefaultInterval
       /\ worker.pc = "init" => worker'.pc \in {"init", "lookup"}]_vars

\* the worker sleeps after a run: the configured interval when the run
\* returned (the retraining failed or not), five minutes when it raised
AfterRun ==
    \/ worker.pc = "sleep"
    \/ worker.pc = "sleep_error" /\ worker.cause = "run"

\* C28: after a run whose retraining failed the worker waits the configured
\* interval, and after a run, raised or not, it eventually starts another run
C28_RunsForever ==
    /\ [](worker.pc = "sleep" => worker.slept = worker.interval_minutes)
    /\ AfterRun ~> worker.pc = "run"

\* what the code keeps: the same, as long as the file is not left malformed
RunsForeverWhenConfigLoads ==
    /\ [](worker.pc = "sleep" => worker.slept = worker.interval_minutes)
    /\ (<>[](worker.file.kind # "malformed")) => (AfterRun ~> worker.pc = "run")

-----------------------------------------------------------------------------
(* Decision order of the duplicate checker *)

\* the candidate of a step of the duplicate checker, and its fingerprint
Candidate == fed'[Len(fed')]
CandidateHash == calculate_data_hash(Candidate)

\* rows of the same source and lower-cased title at most one day away, on
\* either side of the candidate's date
NearRows(tbl, item) ==
    {i \in DOMAIN tbl : /\ tbl[i].source = item.source
                        /\ Lower(Strip(tbl[i].title)) = Lower(Strip(item.title))
                        /\ Abs(Ord(tbl[i].date) - Ord(item.date)) <= DupDateSlack}

\* C27: the decision order of is_duplicate: (1) fingerprint seen: duplicate
\* without an existing record, nothing changes; (2) a row with the candidate's
\* non-empty url: duplicate, fingerprint marked; (3) a row of the same source
\* and title at most one day away: duplicate, fingerprint marked; (4)
\* otherwise not a duplicate (the row is inserted), fingerprint marked
C27_DecisionOrder ==
    [][fed' # fed =>
         IF CandidateHash \in seen_hashes
         THEN rows' = rows /\ seen_hashes' = seen_hashes
         ELSE /\ seen_hashes' = seen_hashes \cup {CandidateHash}
              /\ IF Candidate.url # <<>> /\ get_tick_data_by_url(rows, Candidate.url) # {}
                 THEN Len(rows') = Len(rows)
                 ELSE IF NearRows(rows, Candidate) # {}
                 THEN Len(rows') = Len(rows)
                 ELSE rows' = Append(rows, NewRow(Candidate))]_vars

\* what the code keeps: the order (1), (3), (4) for a candidate without url,
\* with (3) looking only at rows dated on or before the candidate's date
DecisionOrderWithoutUrl ==
    [][(fed' # fed /\ Candidate.url = <<>>) =>
         IF CandidateHash \in seen_hashes
         THEN rows' = rows /\ seen_hashes' = seen_hashes
         ELSE /\ seen_hashes' = seen_hashes \cup {CandidateHash}
              /\ IF {i \in NearRows(rows, Candidate) :
                        Ord(rows[i].date) <= Ord(Candidate.date)} # {}
                 THEN Len(rows') = Len(rows)
                 ELSE rows' = Append(rows, NewRow(Candidate))]_vars

\* C30: when a store lookup raises inside is_duplicate, the result is
\* (False, None), so the candidate is inserted, and the seen set is unchanged
C30_LookupRaises ==
    [][(/\ fed' # fed
        /\ CandidateHash \notin seen_hashes
        /\ Candidate.url # <<>>
        /\ Raises("get_tick_data_by_url"))
           => /\ seen_hashes' = seen_hashes
              /\ rows' = Append(rows, NewRow(Candidate))]_vars

\* a candidate with a url went through the raising lookup: it is stored and
\* its fingerprint is not in the seen set
C30_Witness ==
    /\ fed # <<>>
    /\ fed[Len(fed)].url # <<>>
    /\ calculate_data_hash(fed[Len(fed)]) \notin seen_hashes
    /\ rows # <<>> /\ rows[Len(rows)] = NewRow(fed[Len(fed)])

-----------------------------------------------------------------------------
(* Concurrent runs *)

\* the rows of a table that hold a record: its date, source and title
RowsOf(tbl, rec) ==
    {i \in DOMAIN tbl : /\ tbl[i].date = rec.date
                        /\ tbl[i].source = rec.source
                        /\ tbl[i].title = rec.title}

\* the records every thread has taken through its store loop in runs that
\* overlap, and that the table did not hold before
SharedNewRecords ==
    {rec \in UNION {{all_data[t][k] : k \in DOMAIN all_data[t]} : t \in Threads} :
        /\ \A t \in Threads : \E k \in DOMAIN all_data[t] : all_data[t][k] = rec
        /\ RowsOf(rows0, rec) = {}}

BothDone == \A t \in Threads : pc[t] = "done"

\* C29: two concurrent runs that ingest the same new record end with one row
\* for it, whatever the interleaving of their store loops
C29_ConcurrentOneRow ==
    BothDone => \A rec \in SharedNewRecords : Cardinality(RowsOf(rows, rec)) = 1

\* what the code keeps: never two rows for such a record
ConcurrentAtMostOneRow ==
    BothDone => \A rec \in SharedNewRecords : Cardinality(RowsOf(rows, rec)) <= 1

====
